---------------------------- MODULE Spec2Model ----------------------------
(***************************************************************************)
(* Model of the Olist ETL pipeline (src/src/etl.py) and of the analysis    *)
(* runner (src/src/run_analysis.py).                                       *)
(*                                                                         *)
(*   Spec           the load phase of main(): connect, the loop over       *)
(*                  tables_to_load, load_to_db step by step, final status. *)
(*   SpecConfig     both programs from their start to psycopg2.connect,    *)
(*                  for every set of configuration values that are set.    *)
(*   SpecTransform  the category translation and the dimension tables.     *)
(*   SpecFact       the assembly of fact_order_items.                      *)
(***************************************************************************)
EXTENDS Integers, Sequences, FiniteSets, TLC

(***************************************************************************)
(* Bounds.                                                                 *)
(***************************************************************************)
\* number of pipeline runs against the same warehouse
MaxRuns == 2

\* rows of all extracts together, for the translation and the dimensions
MaxDimRows == 3

\* rows of all extracts together, for the fact assembly
MaxFactRows == 7

\* payment rows of the one order, for the payment aggregate
MaxPayments == 3

(***************************************************************************)
(* etl.py, main(): tables_to_load, in dict insertion order (l.229-236).    *)
(***************************************************************************)
tables_to_load ==
  << "dim_customers", "dim_products", "dim_sellers", "dim_geolocation",
     "fact_order_items", "dim_orders" >>

TableNames == { tables_to_load[i] : i \in 1..Len(tables_to_load) }

DimensionTables == TableNames \ {"fact_order_items"}

VARIABLES
  run,            \* number of the current run of main(); stamps the rows it builds
  pc,             \* position of main() / load_to_db
  idx,            \* position of the for loop in tables_to_load
  conn,           \* "none" | "open" | "lost" | "closed"
  autocommit_truncate, \* does the warehouse engine commit on TRUNCATE
  local_file,     \* [table -> does <table>.csv exist in the working directory]
  s3,             \* [table -> rows of the staged object, 0 = no object]
  wh,             \* [table -> committed rows of the warehouse table, 0 = empty]
  txn,            \* <<>> or <<rows>>: uncommitted contents of the current table
  ret,            \* outcome of the current load_to_db call
  all_successful, \* main()'s flag
  status,         \* final message of main()
  attempted,      \* [table -> number of load_to_db calls in this run]
  loaded_ok,      \* tables whose load_to_db returned True in this run
  first_failed,   \* index of the first table whose load returned False, 0 if none
  wh_before,      \* committed rows of the current table when load_to_db was called
  failed_step     \* step of load_to_db that raised, "none" if none

VARIABLES
  prog,           \* the program that runs: "etl" (etl.py) or "run_analysis"
  env,            \* [configuration name -> is the environment variable set]
  cpc,            \* position of the program on its way to psycopg2.connect
  connect_args    \* names of the values handed to psycopg2.connect, per call

VARIABLES
  products,              \* all_data['products'] as read
  category_translation,  \* all_data['category_translation']
  customers,             \* all_data['customers']
  sellers,               \* all_data['sellers']
  geolocation,           \* all_data['geolocation']
  orders,                \* all_data['orders']
  order_items,           \* all_data['order_items']
  payments,              \* all_data['payments']
  reviews,               \* all_data['reviews']
  products_df,           \* all_data['products'] after the translation (l.158)
  dim_customers, dim_products, dim_sellers, dim_geolocation, dim_orders,
  joined,                \* fact_order_items after the two inner joins (l.197)
  payments_agg,          \* l.198-201
  reviews_agg,           \* l.203
  fact_order_items,      \* l.216
  tpc                    \* position of main() in the transformation

loadvars ==
  << run, pc, idx, conn, autocommit_truncate, local_file, s3, wh, txn, ret,
     all_successful, status, attempted, loaded_ok, first_failed, wh_before,
     failed_step >>

cfgvars == << prog, env, cpc, connect_args >>

datavars ==
  << products, category_translation, customers, sellers, geolocation, orders,
     order_items, payments, reviews >>

outvars ==
  << products_df, dim_customers, dim_products, dim_sellers, dim_geolocation,
     dim_orders, joined, payments_agg, reviews_agg, fact_order_items >>

trvars == << datavars, outvars, tpc >>

vars == << loadvars, cfgvars, trvars >>

\* the table the loop is at
cur == tables_to_load[idx]

\* rows a run stages for a table: the data built by run r is stamped r
Rows(r) == r

LoadInit ==
  /\ run = 1
  /\ pc = "connect"
  /\ idx = 1
  /\ conn = "none"
  /\ autocommit_truncate \in BOOLEAN
  /\ local_file = [t \in TableNames |-> FALSE]
  /\ s3 = [t \in TableNames |-> 0]
  /\ wh = [t \in TableNames |-> 0]
  /\ txn = << >>
  /\ ret = "none"
  /\ all_successful = TRUE
  /\ status = "none"
  /\ attempted = [t \in TableNames |-> 0]
  /\ loaded_ok = {}
  /\ first_failed = 0
  /\ wh_before = 0
  /\ failed_step = "none"

\* the configuration part of the state while the load phase is looked at
CfgIdle ==
  /\ prog = "etl"
  /\ env = [n \in {} |-> TRUE]
  /\ cpc = "idle"
  /\ connect_args = << >>

\* the transformation part of the state while another phase is looked at
TrIdle ==
  /\ products = << >>
  /\ category_translation = << >>
  /\ customers = << >>
  /\ sellers = << >>
  /\ geolocation = << >>
  /\ orders = << >>
  /\ order_items = << >>
  /\ payments = << >>
  /\ reviews = << >>
  /\ products_df = << >>
  /\ dim_customers = << >>
  /\ dim_products = << >>
  /\ dim_sellers = << >>
  /\ dim_geolocation = << >>
  /\ dim_orders = << >>
  /\ joined = << >>
  /\ payments_agg = << >>
  /\ reviews_agg = << >>
  /\ fact_order_items = << >>
  /\ tpc = "idle"

Init == LoadInit /\ CfgIdle /\ TrIdle

(***************************************************************************)
(* main(), l.221-227: boto3.client and psycopg2.connect; an exception goes *)
(* to the handler of l.250 with conn still None.                           *)
(***************************************************************************)
Connect ==
  /\ pc = "connect"
  /\ \E ok \in BOOLEAN :
       IF ok
         THEN /\ conn' = "open"
              /\ pc' = "for"
              /\ status' = status
         ELSE /\ conn' = "none"
              /\ pc' = "main_finally"
              /\ status' = "critical"
  /\ idx' = 1
  /\ all_successful' = TRUE
  /\ UNCHANGED << cfgvars, trvars >>
  /\ UNCHANGED << run, autocommit_truncate, local_file, s3, wh, txn, ret,
                  attempted, loaded_ok, first_failed, wh_before, failed_step >>

(***************************************************************************)
(* main(), l.240-241: the for loop takes the next table and calls          *)
(* load_to_db, or leaves the loop when the dict is exhausted.              *)
(***************************************************************************)
ForLoop ==
  /\ pc = "for"
  /\ IF idx <= Len(tables_to_load)
       THEN /\ pc' = "to_csv"
            /\ attempted' = [attempted EXCEPT ![cur] = @ + 1]
            /\ wh_before' = wh[cur]
            /\ ret' = "none"
            /\ failed_step' = "none"
       ELSE /\ pc' = "after_loop"
            /\ UNCHANGED << attempted, wh_before, ret, failed_step >>
  /\ UNCHANGED << cfgvars, trvars >>
  /\ UNCHANGED << run, idx, conn, autocommit_truncate, local_file, s3, wh, txn,
                  all_successful, status, loaded_ok, first_failed >>

(***************************************************************************)
(* load_to_db, l.95: df.to_csv(local_path).  On failure the file may or    *)
(* may not have been created.                                              *)
(***************************************************************************)
ToCsv ==
  /\ pc = "to_csv"
  /\ \E ok \in BOOLEAN, created \in BOOLEAN :
       IF ok
         THEN /\ local_file' = [local_file EXCEPT ![cur] = TRUE]
              /\ pc' = "upload"
              /\ failed_step' = failed_step
         ELSE /\ local_file' = [local_file EXCEPT ![cur] = created]
              /\ pc' = "except"
              /\ failed_step' = "to_csv"
  /\ UNCHANGED << cfgvars, trvars >>
  /\ UNCHANGED << run, idx, conn, autocommit_truncate, s3, wh, txn, ret,
                  all_successful, status, attempted, loaded_ok, first_failed,
                  wh_before >>

(***************************************************************************)
(* load_to_db, l.99: s3_client.upload_file.                                *)
(***************************************************************************)
Upload ==
  /\ pc = "upload"
  /\ \E ok \in BOOLEAN :
       IF ok
         THEN /\ s3' = [s3 EXCEPT ![cur] = Rows(run)]
              /\ pc' = "truncate"
              /\ failed_step' = failed_step
         ELSE /\ s3' = s3
              /\ pc' = "except"
              /\ failed_step' = "upload"
  /\ UNCHANGED << cfgvars, trvars >>
  /\ UNCHANGED << run, idx, conn, autocommit_truncate, local_file, wh, txn, ret,
                  all_successful, status, attempted, loaded_ok, first_failed,
                  wh_before >>

(***************************************************************************)
(* load_to_db, l.103-108: conn.cursor() and TRUNCATE TABLE.  A failure may *)
(* be the loss of the connection.  On an engine that commits on TRUNCATE   *)
(* (Amazon Redshift) the table is empty and committed at once; on a        *)
(* PostgreSQL engine the truncation stays in the open transaction.         *)
(***************************************************************************)
Truncate ==
  /\ pc = "truncate"
  /\ \E ok \in BOOLEAN, lost \in BOOLEAN :
       IF ok
         THEN /\ IF autocommit_truncate
                   THEN wh' = [wh EXCEPT ![cur] = 0] /\ txn' = << >>
                   ELSE wh' = wh /\ txn' = << 0 >>
              /\ pc' = "copy"
              /\ conn' = conn
              /\ failed_step' = failed_step
         ELSE /\ wh' = wh
              /\ txn' = txn
              /\ pc' = "except"
              /\ conn' = IF lost THEN "lost" ELSE conn
              /\ failed_step' = "truncate"
  /\ UNCHANGED << cfgvars, trvars >>
  /\ UNCHANGED << run, idx, autocommit_truncate, local_file, s3, ret,
                  all_successful, status, attempted, loaded_ok, first_failed,
                  wh_before >>

(***************************************************************************)
(* load_to_db, l.111-122: COPY <table> FROM the staged object.             *)
(***************************************************************************)
Copy ==
  /\ pc = "copy"
  /\ \E ok \in BOOLEAN, lost \in BOOLEAN :
       IF ok
         THEN /\ txn' = << s3[cur] >>
              /\ pc' = "commit"
              /\ conn' = conn
              /\ failed_step' = failed_step
         ELSE /\ txn' = txn
              /\ pc' = "except"
              /\ conn' = IF lost THEN "lost" ELSE conn
              /\ failed_step' = "copy"
  /\ UNCHANGED << cfgvars, trvars >>
  /\ UNCHANGED << run, idx, autocommit_truncate, local_file, s3, wh, ret,
                  all_successful, status, attempted, loaded_ok, first_failed,
                  wh_before >>

(***************************************************************************)
(* load_to_db, l.124-126: conn.commit(); return True.                      *)
(***************************************************************************)
Commit ==
  /\ pc = "commit"
  /\ \E ok \in BOOLEAN, lost \in BOOLEAN :
       IF ok
         THEN /\ wh' = [wh EXCEPT ![cur] = txn[1]]
              /\ txn' = << >>
              /\ ret' = "True"
              /\ pc' = "finally"
              /\ conn' = conn
              /\ failed_step' = failed_step
         ELSE /\ wh' = wh
              /\ txn' = txn
              /\ ret' = ret
              /\ pc' = "except"
              /\ conn' = IF lost THEN "lost" ELSE conn
              /\ failed_step' = "commit"
  /\ UNCHANGED << cfgvars, trvars >>
  /\ UNCHANGED << run, idx, autocommit_truncate, local_file, s3,
                  all_successful, status, attempted, loaded_ok, first_failed,
                  wh_before >>

(***************************************************************************)
(* load_to_db, l.128-131: except Exception: conn.rollback(); return False. *)
(* On a lost connection conn.rollback() raises itself, and that exception  *)
(* leaves load_to_db (through the finally clause).  The server discards    *)
(* the open transaction of a lost connection.                              *)
(***************************************************************************)
Except ==
  /\ pc = "except"
  /\ txn' = << >>
  /\ ret' = IF conn = "lost" THEN "raise" ELSE "False"
  /\ pc' = "finally"
  /\ UNCHANGED << cfgvars, trvars >>
  /\ UNCHANGED << run, idx, conn, autocommit_truncate, local_file, s3, wh,
                  all_successful, status, attempted, loaded_ok, first_failed,
                  wh_before, failed_step >>

\* a finally clause that cleans up only on the success path
FinallyOnSuccessOnly ==
  /\ pc = "finally"
  /\ local_file' = IF ret = "True"
                     THEN [local_file EXCEPT ![cur] = FALSE]
                     ELSE local_file
  /\ pc' = "returned"
  /\ UNCHANGED << cfgvars, trvars >>
  /\ UNCHANGED << run, idx, conn, autocommit_truncate, s3, wh, txn, ret,
                  all_successful, status, attempted, loaded_ok, first_failed,
                  wh_before, failed_step >>

(***************************************************************************)
(* load_to_db, l.132-136: finally: remove the local file if it exists.     *)
(***************************************************************************)
Finally ==
  /\ pc = "finally"
  /\ local_file' = IF local_file[cur]
                     THEN [local_file EXCEPT ![cur] = FALSE]
                     ELSE local_file
  /\ pc' = "returned"
  /\ UNCHANGED << cfgvars, trvars >>
  /\ UNCHANGED << run, idx, conn, autocommit_truncate, s3, wh, txn, ret,
                  all_successful, status, attempted, loaded_ok, first_failed,
                  wh_before, failed_step >>

(***************************************************************************)
(* main(), l.240-241: load_to_db returned True, the loop goes on.          *)
(***************************************************************************)
LoopNext ==
  /\ pc = "returned"
  /\ ret = "True"
  /\ loaded_ok' = loaded_ok \cup {cur}
  /\ idx' = idx + 1
  /\ pc' = "for"
  /\ UNCHANGED << cfgvars, trvars >>
  /\ UNCHANGED << run, conn, autocommit_truncate, local_file, s3, wh, txn, ret,
                  all_successful, status, attempted, first_failed, wh_before,
                  failed_step >>

\* a loop that records the failure but goes on with the next table
LoopContinue ==
  /\ pc = "returned"
  /\ ret = "False"
  /\ all_successful' = FALSE
  /\ first_failed' = IF first_failed = 0 THEN idx ELSE first_failed
  /\ idx' = idx + 1
  /\ pc' = "for"
  /\ UNCHANGED << cfgvars, trvars >>
  /\ UNCHANGED << run, conn, autocommit_truncate, local_file, s3, wh, txn, ret,
                  status, attempted, loaded_ok, wh_before, failed_step >>

(***************************************************************************)
(* main(), l.241-243: load_to_db returned False: all_successful = False,   *)
(* break.                                                                  *)
(***************************************************************************)
LoopBreak ==
  /\ pc = "returned"
  /\ ret = "False"
  /\ all_successful' = FALSE
  /\ first_failed' = IF first_failed = 0 THEN idx ELSE first_failed
  /\ pc' = "after_loop"
  /\ UNCHANGED << cfgvars, trvars >>
  /\ UNCHANGED << run, idx, conn, autocommit_truncate, local_file, s3, wh, txn,
                  ret, status, attempted, loaded_ok, wh_before, failed_step >>

(***************************************************************************)
(* main(), l.250-251: an exception that left load_to_db is caught by the   *)
(* handler of main().                                                      *)
(***************************************************************************)
MainExcept ==
  /\ pc = "returned"
  /\ ret = "raise"
  /\ status' = "critical"
  /\ pc' = "main_finally"
  /\ UNCHANGED << cfgvars, trvars >>
  /\ UNCHANGED << run, idx, conn, autocommit_truncate, local_file, s3, wh, txn,
                  ret, all_successful, attempted, loaded_ok, first_failed,
                  wh_before, failed_step >>

(***************************************************************************)
(* main(), l.245-248: the final message.                                   *)
(***************************************************************************)
FinalStatus ==
  /\ pc = "after_loop"
  /\ status' = IF all_successful THEN "success" ELSE "warning"
  /\ pc' = "main_finally"
  /\ UNCHANGED << cfgvars, trvars >>
  /\ UNCHANGED << run, idx, conn, autocommit_truncate, local_file, s3, wh, txn,
                  ret, all_successful, attempted, loaded_ok, first_failed,
                  wh_before, failed_step >>

(***************************************************************************)
(* main(), l.252-255: finally: if conn: conn.close().                      *)
(***************************************************************************)
MainFinally ==
  /\ pc = "main_finally"
  /\ conn' = IF conn = "none" THEN "none" ELSE "closed"
  /\ pc' = "done"
  /\ UNCHANGED << cfgvars, trvars >>
  /\ UNCHANGED << run, idx, autocommit_truncate, local_file, s3, wh, txn, ret,
                  all_successful, status, attempted, loaded_ok, first_failed,
                  wh_before, failed_step >>

(***************************************************************************)
(* The pipeline is run again (l.258-259) against the same warehouse,       *)
(* bucket and working directory.                                           *)
(***************************************************************************)
StartRun ==
  /\ pc = "done"
  /\ run < MaxRuns
  /\ run' = run + 1
  /\ pc' = "connect"
  /\ idx' = 1
  /\ conn' = "none"
  /\ txn' = << >>
  /\ ret' = "none"
  /\ all_successful' = TRUE
  /\ status' = "none"
  /\ attempted' = [t \in TableNames |-> 0]
  /\ loaded_ok' = {}
  /\ first_failed' = 0
  /\ wh_before' = 0
  /\ failed_step' = "none"
  /\ UNCHANGED << cfgvars, trvars >>
  /\ UNCHANGED << autocommit_truncate, local_file, s3, wh >>

Next ==
  \/ Connect
  \/ ForLoop
  \/ ToCsv
  \/ Upload
  \/ Truncate
  \/ Copy
  \/ Commit
  \/ Except
  \/ Finally
  \/ LoopNext
  \/ LoopBreak
  \/ MainExcept
  \/ FinalStatus
  \/ MainFinally
  \/ StartRun

Spec == Init /\ [][Next]_vars

(***************************************************************************)
(* Properties of the load phase.                                           *)
(***************************************************************************)

\* C1: once the load of fact_order_items has been attempted, the load of
\* every dimension table (dim_orders included) has been attempted and has
\* returned True in this run.
C1_FactAfterEveryDimension ==
  attempted["fact_order_items"] > 0 => DimensionTables \subseteq loaded_ok

\* C2: when a load_to_db call ends, whatever step failed or succeeded, the
\* local file <table_name>.csv does not exist.
C2_LocalFileRemoved ==
  pc = "returned" => ~ local_file[cur]

\* a call that staged its file, failed at COPY on a lost connection, so that
\* the rollback raised too, and has ended
C2_Witness ==
  /\ pc = "returned"
  /\ failed_step = "copy"
  /\ ret = "raise"
  /\ s3[cur] = Rows(run)

\* C3: a load_to_db call is atomic on its table: True means the table holds
\* exactly the rows just staged; a failure of the upload, the TRUNCATE or the
\* COPY means False is returned and the table holds the rows it held before.
C3_LoadAtomic ==
  pc = "returned" =>
    /\ ret = "True" => wh[cur] = Rows(run)
    /\ failed_step \in {"upload", "truncate", "copy"} =>
         /\ ret = "False"
         /\ wh[cur] = wh_before

\* C4: every load_to_db call ends by returning True or False; no exception
\* leaves it, also when the rollback fails on a lost connection.
C4_NoExceptionEscapes ==
  pc = "returned" => ret \in {"True", "False"}

\* C10: a table's load is attempted at most once per run; after the first
\* load that returned False no later table is attempted, staged or loaded,
\* the success message is never given and the run ends with the warning.
C10_FailFast ==
  /\ \A t \in TableNames : attempted[t] <= 1
  /\ first_failed # 0 =>
       /\ \A i \in (first_failed + 1)..Len(tables_to_load) :
            /\ attempted[tables_to_load[i]] = 0
            /\ ~ local_file[tables_to_load[i]]
            /\ s3[tables_to_load[i]] # Rows(run)
            /\ wh[tables_to_load[i]] # Rows(run)
       /\ status # "success"
       /\ pc = "done" => status = "warning"

\* a run that ended after the load of the second table returned False
C10_Witness ==
  /\ pc = "done"
  /\ first_failed = 2
  /\ status = "warning"
  /\ loaded_ok = {"dim_customers"}

(***************************************************************************)
(* Configuration: the environment values the two programs read at module   *)
(* scope (etl.py l.15-23, run_analysis.py l.16-20) and their way to         *)
(* psycopg2.connect.  os.getenv gives None for a variable that is not set.  *)
(***************************************************************************)
ConfigNames ==
  { "DB_USER", "DB_PASSWORD", "DB_HOST", "DB_NAME", "S3_BUCKET",
    "REDSHIFT_IAM_ROLE_ARN" }

\* the values a program needs and that have no default (DB_PORT has one)
Required(p) ==
  IF p = "etl"
    THEN ConfigNames
    ELSE { "DB_USER", "DB_PASSWORD", "DB_HOST", "DB_NAME" }

\* the load phase part of the state while another phase is looked at
LoadIdle ==
  /\ run = 1
  /\ pc = "idle"
  /\ idx = 1
  /\ conn = "none"
  /\ autocommit_truncate = FALSE
  /\ local_file = [t \in TableNames |-> FALSE]
  /\ s3 = [t \in TableNames |-> 0]
  /\ wh = [t \in TableNames |-> 0]
  /\ txn = << >>
  /\ ret = "none"
  /\ all_successful = TRUE
  /\ status = "none"
  /\ attempted = [t \in TableNames |-> 0]
  /\ loaded_ok = {}
  /\ first_failed = 0
  /\ wh_before = 0
  /\ failed_step = "none"

InitConfig ==
  /\ prog \in {"etl", "run_analysis"}
  /\ env \in [ConfigNames -> BOOLEAN]
  /\ cpc = "start"
  /\ connect_args = << >>
  /\ LoadIdle
  /\ TrIdle

\* Python's all() over a dict: every key is truthy (a non-empty string)
PyAll(d) == \A k \in DOMAIN d : k # ""

\* run_analysis.py l.38: credentials = {}
credentials == [n \in {} |-> TRUE]

(***************************************************************************)
(* etl.py main(), l.145-146: load_data; a missing file ends the run.       *)
(***************************************************************************)
EtlExtract ==
  /\ prog = "etl"
  /\ cpc = "start"
  /\ \E found \in BOOLEAN :
       cpc' = IF found THEN "transform" ELSE "returned"
  /\ UNCHANGED << prog, env, connect_args >>
  /\ UNCHANGED << loadvars, trvars >>

(***************************************************************************)
(* etl.py main(), l.148-218: the transformation; it reads no configuration *)
(* value.  An exception in it is not caught by main().                     *)
(***************************************************************************)
EtlTransform ==
  /\ prog = "etl"
  /\ cpc = "transform"
  /\ \E ok \in BOOLEAN :
       cpc' = IF ok THEN "connect" ELSE "raised"
  /\ UNCHANGED << prog, env, connect_args >>
  /\ UNCHANGED << loadvars, trvars >>

(***************************************************************************)
(* etl.py main(), l.221-227: psycopg2.connect(dbname=DB_NAME, user=DB_USER,*)
(* password=DB_PASSWORD, host=DB_HOST, port=DB_PORT), with no check of the *)
(* values before it.                                                       *)
(***************************************************************************)
EtlConnect ==
  /\ prog = "etl"
  /\ cpc = "connect"
  /\ connect_args' =
       Append(connect_args, {"DB_NAME", "DB_USER", "DB_PASSWORD", "DB_HOST"})
  /\ \E ok \in BOOLEAN :
       cpc' = IF ok THEN "connected" ELSE "critical"
  /\ UNCHANGED << prog, env >>
  /\ UNCHANGED << loadvars, trvars >>

(***************************************************************************)
(* run_analysis(), l.38-42: credentials = {}; if not all(credentials):     *)
(* log the error and return.                                               *)
(***************************************************************************)
RaCheck ==
  /\ prog = "run_analysis"
  /\ cpc = "start"
  /\ cpc' = IF ~ PyAll(credentials) THEN "returned" ELSE "connect"
  /\ UNCHANGED << prog, env, connect_args >>
  /\ UNCHANGED << loadvars, trvars >>

(***************************************************************************)
(* run_analysis(), l.44-55 and l.82-83: psycopg2.connect(host=DB_HOST,     *)
(* dbname=DB_NAME, user=DB_USER, password=DB_PASSWORD, port=DB_PORT).      *)
(***************************************************************************)
RaConnect ==
  /\ prog = "run_analysis"
  /\ cpc = "connect"
  /\ connect_args' =
       Append(connect_args, {"DB_HOST", "DB_NAME", "DB_USER", "DB_PASSWORD"})
  /\ \E ok \in BOOLEAN :
       cpc' = IF ok THEN "connected" ELSE "critical"
  /\ UNCHANGED << prog, env >>
  /\ UNCHANGED << loadvars, trvars >>

NextConfig ==
  \/ EtlExtract
  \/ EtlTransform
  \/ EtlConnect
  \/ RaCheck
  \/ RaConnect

SpecConfig == InitConfig /\ [][NextConfig]_vars

\* C5: psycopg2.connect is never called while a required configuration
\* value is missing, in etl.py's main() and in run_analysis().
C5_NoConnectWithMissingConfig ==
  connect_args # << >> => \A n \in Required(prog) : env[n]

(***************************************************************************)
(* The transformation of main(), l.152-216, on data frames modelled as     *)
(* sequences of records (one record per row, one field per column).        *)
(* Nullable numeric cells are << >> (NaN) or << v >>; the missing marker   *)
(* of a text cell is the string NaN.  Columns the transformation only      *)
(* carries along (city, state, price, the timestamps, ...) are left out.   *)
(* payment_type is the rank of the type in alphabetical order              *)
(* (1 boleto, 2 credit_card, 3 voucher).                                   *)
(***************************************************************************)
NaN == "NaN"

Missing == << >>

\* Series.fillna(d) on one nullable cell
FillNa(cell, d) == IF cell = Missing THEN d ELSE cell[1]

SeqsUpTo(S, n) == UNION { [1..k -> S] : k \in 0..n }

RECURSIVE Flatten(_)
Flatten(ss) == IF ss = << >> THEN << >> ELSE Head(ss) \o Flatten(Tail(ss))

RECURSIVE Pick(_, _, _)
\* the rows whose index is in I, in order, from index i on
Pick(rows, I, i) ==
  IF i > Len(rows)
    THEN << >>
    ELSE (IF i \in I THEN << rows[i] >> ELSE << >>) \o Pick(rows, I, i + 1)

RECURSIVE SumSeq(_)
SumSeq(xs) == IF xs = << >> THEN 0 ELSE Head(xs) + SumSeq(Tail(xs))

MaxOf(S) == CHOOSE x \in S : \A y \in S : y <= x

MinOf(S) == CHOOSE x \in S : \A y \in S : x <= y

RECURSIVE Sorted(_)
\* the elements of a set of integers in ascending order
Sorted(S) == IF S = {} THEN << >> ELSE << MinOf(S) >> \o Sorted(S \ {MinOf(S)})

\* df[cols]
Project(rows, cols) ==
  [i \in 1..Len(rows) |-> [c \in cols |-> rows[i][c]]]

\* pd.merge(left, right, on=key, how=how): for every left row, in order, one
\* row per right row with the same key, in the right's order; with how='left'
\* a left row without a match is kept once, the right's columns being null.
Merge(left, right, key, how, nulls) ==
  LET matches(l) == SelectSeq(right, LAMBDA r : r[key] = l[key])
      rowsOf(l) ==
        IF matches(l) = << >>
          THEN (IF how = "left" THEN << l @@ nulls >> ELSE << >>)
          ELSE [j \in 1..Len(matches(l)) |-> l @@ matches(l)[j]]
  IN  Flatten([i \in 1..Len(left) |-> rowsOf(left[i])])

\* DataFrame.drop_duplicates(subset=cols), keep='first'
DropDuplicates(rows, cols) ==
  LET same(a, b) == \A c \in cols : a[c] = b[c]
      kept == { i \in 1..Len(rows) :
                  \A j \in 1..(i - 1) : ~ same(rows[j], rows[i]) }
  IN  Pick(rows, kept, 1)

(***************************************************************************)
(* l.152-158: left merge of products with category_translation, the        *)
(* English name replacing the category where there is one.                 *)
(***************************************************************************)
TranslateCategories(prods, translation) ==
  LET m == Merge(prods, translation, "product_category_name", "left",
                 [product_category_name_english |-> NaN])
  IN  [i \in 1..Len(m) |->
        [product_id |-> m[i].product_id,
         product_weight_g |-> m[i].product_weight_g,
         product_category_name |->
           IF m[i].product_category_name_english # NaN
             THEN m[i].product_category_name_english
             ELSE m[i].product_category_name]]

\* l.160-161: the projection, then drop_duplicates() over whole rows
DimCustomers(cust) ==
  DropDuplicates(
    Project(cust, {"customer_unique_id", "customer_zip_code_prefix"}),
    {"customer_unique_id", "customer_zip_code_prefix"})

\* l.163-172: drop_duplicates(subset=['product_id']), then fillna(0) and int
DimProducts(prods) ==
  LET d == DropDuplicates(
             Project(prods, {"product_id", "product_category_name",
                             "product_weight_g"}),
             {"product_id"})
  IN  [i \in 1..Len(d) |->
        [d[i] EXCEPT !.product_weight_g = FillNa(@, 0)]]

\* l.176-177: the projection, then drop_duplicates() over whole rows
DimSellers(sell) ==
  DropDuplicates(
    Project(sell, {"seller_id", "seller_zip_code_prefix"}),
    {"seller_id", "seller_zip_code_prefix"})

\* l.178-180: drop_duplicates(subset=['geolocation_zip_code_prefix'])
DimGeolocation(geo) ==
  DropDuplicates(
    Project(geo, {"geolocation_zip_code_prefix", "geolocation_lat"}),
    {"geolocation_zip_code_prefix"})

\* l.184-193: drop_duplicates(subset=['order_id'])
DimOrders(ords) ==
  DropDuplicates(
    Project(ords, {"order_id", "customer_id", "order_status"}),
    {"order_id"})

\* l.196-197: orders inner-joined with customers, then with order_items
JoinOrderItems(ords, cust, items) ==
  Merge(Merge(ords, cust, "customer_id", "inner", << >>),
        items, "order_id", "inner", << >>)

\* Series.mode()[0]: the modes come sorted, the first is the smallest
ModeFirst(xs) ==
  LET vals == { xs[i] : i \in 1..Len(xs) }
      count(v) == Cardinality({ i \in 1..Len(xs) : xs[i] = v })
      top == MaxOf({ count(v) : v \in vals })
  IN  Sorted({ v \in vals : count(v) = top })[1]

\* the rows of one group of a groupby('order_id')
Group(rows, k) == SelectSeq(rows, LAMBDA r : r.order_id = k)

GroupKeys(rows) == Sorted({ rows[i].order_id : i \in 1..Len(rows) })

\* one row per payment row: the payments joined as they are, not aggregated
PaymentsNotAggregated(pay) ==
  [i \in 1..Len(pay) |->
    [order_id |-> pay[i].order_id,
     payment_value |-> << pay[i].payment_value >>,
     payment_installments |-> << pay[i].payment_installments >>,
     payment_type |-> << pay[i].payment_type >>]]

\* l.198-201: groupby('order_id').agg(sum, max, mode()[0]).reset_index()
PaymentsAgg(pay) ==
  LET keys == GroupKeys(pay)
      col(k, c) == [i \in 1..Len(Group(pay, k)) |-> Group(pay, k)[i][c]]
  IN  [n \in 1..Len(keys) |->
        [order_id |-> keys[n],
         payment_value |-> << SumSeq(col(keys[n], "payment_value")) >>,
         payment_installments |->
           << MaxOf({ Group(pay, keys[n])[i].payment_installments :
                        i \in 1..Len(Group(pay, keys[n])) }) >>,
         payment_type |-> << ModeFirst(col(keys[n], "payment_type")) >>]]

\* l.203: groupby('order_id').agg(mean).reset_index(); the mean is kept as
\* the pair << sum, count >>
ReviewsAgg(rev) ==
  LET keys == GroupKeys(rev)
      col(k) == [i \in 1..Len(Group(rev, k)) |-> Group(rev, k)[i].review_score]
  IN  [n \in 1..Len(keys) |->
        [order_id |-> keys[n],
         review_score |-> << << SumSeq(col(keys[n])), Len(col(keys[n])) >> >>]]

\* l.202: left merge of the payment aggregate
JoinPayments(fact, agg) ==
  Merge(fact, agg, "order_id", "left",
        [payment_value |-> Missing, payment_installments |-> Missing,
         payment_type |-> Missing])

\* l.204: left merge of the review aggregate
JoinReviews(fact, agg) ==
  Merge(fact, agg, "order_id", "left", [review_score |-> Missing])

\* l.205-216: the column selection, fillna(0) and the cast to int, which
\* truncates the mean review score
ProjectAndFill(fact) ==
  [i \in 1..Len(fact) |->
    [order_id |-> fact[i].order_id,
     order_item_id |-> fact[i].order_item_id,
     customer_unique_id |-> fact[i].customer_unique_id,
     payment_value |-> FillNa(fact[i].payment_value, 0),
     payment_installments |-> FillNa(fact[i].payment_installments, 0),
     payment_type |-> fact[i].payment_type,
     review_score |->
       IF fact[i].review_score = Missing
         THEN 0
         ELSE fact[i].review_score[1][1] \div fact[i].review_score[1][2]]]

(***************************************************************************)
(* SpecTransform: the category translation and the five dimension tables,  *)
(* on every choice of extracts of at most MaxDimRows rows in total.        *)
(***************************************************************************)
ProductRows ==
  [product_id : {1, 2},
   product_category_name : {"beleza_saude", "pc_gamer"},
   product_weight_g : {Missing, << 3 >>}]

TranslationRows ==
  [product_category_name : {"beleza_saude"},
   product_category_name_english : {"health_beauty", "beauty"}]

CustomerRows ==
  [customer_id : {1}, customer_unique_id : {1, 2},
   customer_zip_code_prefix : {1, 2}]

SellerRows == [seller_id : {1, 2}, seller_zip_code_prefix : {1, 2}]

GeolocationRows ==
  [geolocation_zip_code_prefix : {1, 2}, geolocation_lat : {1, 2}]

OrderRows ==
  [order_id : {1, 2}, customer_id : {1},
   order_status : {"delivered", "canceled"}]

InitTransform ==
  /\ products \in SeqsUpTo(ProductRows, MaxDimRows)
  /\ category_translation
       \in SeqsUpTo(TranslationRows, MaxDimRows - Len(products))
  /\ customers
       \in SeqsUpTo(CustomerRows,
                    MaxDimRows - Len(products) - Len(category_translation))
  /\ sellers
       \in SeqsUpTo(SellerRows,
                    MaxDimRows - Len(products) - Len(category_translation)
                      - Len(customers))
  /\ geolocation
       \in SeqsUpTo(GeolocationRows,
                    MaxDimRows - Len(products) - Len(category_translation)
                      - Len(customers) - Len(sellers))
  /\ orders
       \in SeqsUpTo(OrderRows,
                    MaxDimRows - Len(products) - Len(category_translation)
                      - Len(customers) - Len(sellers) - Len(geolocation))
  /\ order_items = << >>
  /\ payments = << >>
  /\ reviews = << >>
  /\ products_df = << >>
  /\ dim_customers = << >>
  /\ dim_products = << >>
  /\ dim_sellers = << >>
  /\ dim_geolocation = << >>
  /\ dim_orders = << >>
  /\ joined = << >>
  /\ payments_agg = << >>
  /\ reviews_agg = << >>
  /\ fact_order_items = << >>
  /\ tpc = "translate"
  /\ LoadIdle
  /\ CfgIdle

\* l.152-158
Translate ==
  /\ tpc = "translate"
  /\ products_df' = TranslateCategories(products, category_translation)
  /\ tpc' = "dim_customers"
  /\ UNCHANGED << datavars, dim_customers, dim_products, dim_sellers,
                  dim_geolocation, dim_orders, joined, payments_agg,
                  reviews_agg, fact_order_items >>
  /\ UNCHANGED << loadvars, cfgvars >>

\* l.160-161
BuildDimCustomers ==
  /\ tpc = "dim_customers"
  /\ dim_customers' = DimCustomers(customers)
  /\ tpc' = "dim_products"
  /\ UNCHANGED << datavars, products_df, dim_products, dim_sellers,
                  dim_geolocation, dim_orders, joined, payments_agg,
                  reviews_agg, fact_order_items >>
  /\ UNCHANGED << loadvars, cfgvars >>

\* l.163-173, on all_data['products'] as the translation left it
BuildDimProducts ==
  /\ tpc = "dim_products"
  /\ dim_products' = DimProducts(products_df)
  /\ tpc' = "dim_sellers"
  /\ UNCHANGED << datavars, products_df, dim_customers, dim_sellers,
                  dim_geolocation, dim_orders, joined, payments_agg,
                  reviews_agg, fact_order_items >>
  /\ UNCHANGED << loadvars, cfgvars >>

\* l.176-177
BuildDimSellers ==
  /\ tpc = "dim_sellers"
  /\ dim_sellers' = DimSellers(sellers)
  /\ tpc' = "dim_geolocation"
  /\ UNCHANGED << datavars, products_df, dim_customers, dim_products,
                  dim_geolocation, dim_orders, joined, payments_agg,
                  reviews_agg, fact_order_items >>
  /\ UNCHANGED << loadvars, cfgvars >>

\* l.178-181
BuildDimGeolocation ==
  /\ tpc = "dim_geolocation"
  /\ dim_geolocation' = DimGeolocation(geolocation)
  /\ tpc' = "dim_orders"
  /\ UNCHANGED << datavars, products_df, dim_customers, dim_products,
                  dim_sellers, dim_orders, joined, payments_agg,
                  reviews_agg, fact_order_items >>
  /\ UNCHANGED << loadvars, cfgvars >>

\* l.184-194
BuildDimOrders ==
  /\ tpc = "dim_orders"
  /\ dim_orders' = DimOrders(orders)
  /\ tpc' = "fact"
  /\ UNCHANGED << datavars, products_df, dim_customers, dim_products,
                  dim_sellers, dim_geolocation, joined, payments_agg,
                  reviews_agg, fact_order_items >>
  /\ UNCHANGED << loadvars, cfgvars >>

NextTransform ==
  \/ Translate
  \/ BuildDimCustomers
  \/ BuildDimProducts
  \/ BuildDimSellers
  \/ BuildDimGeolocation
  \/ BuildDimOrders

SpecTransform == InitTransform /\ [][NextTransform]_vars

\* the key column of a table holds no value twice
UniqueKey(rows, key) ==
  \A i, j \in 1..Len(rows) : rows[i][key] = rows[j][key] => i = j

\* every row of the table is the projection of the first source row with
\* its key
FirstSeenKept(rows, source, key) ==
  \A i \in 1..Len(rows) :
    \E j \in 1..Len(source) :
      /\ source[j][key] = rows[i][key]
      /\ \A k \in 1..(j - 1) : source[k][key] # rows[i][key]
      /\ \A c \in (DOMAIN rows[i]) \ {"product_weight_g"} :
           rows[i][c] = source[j][c]

\* C6: in every built dimension table the key column is unique, and the
\* row kept for a key is the first source row with that key.
C6_DimensionKeysUnique ==
  tpc = "fact" =>
    /\ UniqueKey(dim_customers, "customer_unique_id")
    /\ FirstSeenKept(dim_customers, customers, "customer_unique_id")
    /\ UniqueKey(dim_products, "product_id")
    /\ FirstSeenKept(dim_products, products_df, "product_id")
    /\ UniqueKey(dim_sellers, "seller_id")
    /\ FirstSeenKept(dim_sellers, sellers, "seller_id")
    /\ UniqueKey(dim_geolocation, "geolocation_zip_code_prefix")
    /\ FirstSeenKept(dim_geolocation, geolocation,
                     "geolocation_zip_code_prefix")
    /\ UniqueKey(dim_orders, "order_id")
    /\ FirstSeenKept(dim_orders, orders, "order_id")

\* the English name of the first translation row of a category, the
\* category itself when there is none
FirstTranslation(cat, translation) ==
  LET hits == { j \in 1..Len(translation) :
                  translation[j].product_category_name = cat }
  IN  IF hits = {}
        THEN cat
        ELSE translation[MinOf(hits)].product_category_name_english

\* C7: the translated products table has as many rows as the products
\* extract, row for row the same product, its category being the (first)
\* English translation when there is one and the original value otherwise.
C7_TranslationKeepsRows ==
  tpc # "translate" =>
    /\ Len(products_df) = Len(products)
    /\ \A i \in 1..Len(products_df) :
         /\ products_df[i].product_id = products[i].product_id
         /\ products_df[i].product_category_name =
              FirstTranslation(products[i].product_category_name,
                               category_translation)

(***************************************************************************)
(* SpecFact: the assembly of fact_order_items, l.196-216, started in the   *)
(* state the dimension steps leave.  The extracts are either any orders,   *)
(* customers, order items, payments and reviews of at most MaxFactRows     *)
(* rows in total, or one order with one item and any payments of at most   *)
(* MaxPayments rows.                                                       *)
(***************************************************************************)
FactOrderRows ==
  [order_id : {1, 2}, customer_id : {1}, order_status : {"delivered"}]

FactCustomerRows ==
  [customer_id : {1}, customer_unique_id : {1},
   customer_zip_code_prefix : {1}]

ItemRows == [order_id : {1, 2}, order_item_id : {1}]

PaymentRowsPerOrder ==
  [order_id : {1, 2}, payment_value : {1}, payment_installments : {1},
   payment_type : {2}]

ReviewRows == [order_id : {1, 2}, review_score : {5}]

PaymentRowsOfOneOrder ==
  [order_id : {1}, payment_value : {1, 2}, payment_installments : {1, 2},
   payment_type : {1, 2, 3}]

\* the outputs of the steps before the fact assembly
DimensionsBuilt ==
  /\ products = << >>
  /\ category_translation = << >>
  /\ sellers = << >>
  /\ geolocation = << >>
  /\ products_df = << >>
  /\ dim_customers = DimCustomers(customers)
  /\ dim_products = << >>
  /\ dim_sellers = << >>
  /\ dim_geolocation = << >>
  /\ dim_orders = DimOrders(orders)
  /\ joined = << >>
  /\ payments_agg = << >>
  /\ reviews_agg = << >>
  /\ fact_order_items = << >>
  /\ tpc = "fact"
  /\ LoadIdle
  /\ CfgIdle

InitFactShape ==
  /\ orders \in SeqsUpTo(FactOrderRows, MaxFactRows)
  /\ customers \in SeqsUpTo(FactCustomerRows, MaxFactRows - Len(orders))
  /\ order_items
       \in SeqsUpTo(ItemRows, MaxFactRows - Len(orders) - Len(customers))
  /\ payments
       \in SeqsUpTo(PaymentRowsPerOrder,
                    MaxFactRows - Len(orders) - Len(customers)
                      - Len(order_items))
  /\ reviews
       \in SeqsUpTo(ReviewRows,
                    MaxFactRows - Len(orders) - Len(customers)
                      - Len(order_items) - Len(payments))
  /\ DimensionsBuilt

InitFactPayments ==
  /\ orders = << [order_id |-> 1, customer_id |-> 1,
                  order_status |-> "delivered"] >>
  /\ customers = << [customer_id |-> 1, customer_unique_id |-> 1,
                     customer_zip_code_prefix |-> 1] >>
  /\ order_items = << [order_id |-> 1, order_item_id |-> 1] >>
  /\ payments \in SeqsUpTo(PaymentRowsOfOneOrder, MaxPayments)
  /\ reviews = << >>
  /\ DimensionsBuilt

InitFact == InitFactShape \/ InitFactPayments

\* l.196-197
FactJoin ==
  /\ tpc = "fact"
  /\ fact_order_items' = JoinOrderItems(orders, customers, order_items)
  /\ joined' = fact_order_items'
  /\ tpc' = "payments"
  /\ UNCHANGED << datavars, products_df, dim_customers, dim_products,
                  dim_sellers, dim_geolocation, dim_orders, payments_agg,
                  reviews_agg >>
  /\ UNCHANGED << loadvars, cfgvars >>

\* l.198-202
FactPayments ==
  /\ tpc = "payments"
  /\ payments_agg' = PaymentsAgg(payments)
  /\ fact_order_items' = JoinPayments(fact_order_items, payments_agg')
  /\ tpc' = "reviews"
  /\ UNCHANGED << datavars, products_df, dim_customers, dim_products,
                  dim_sellers, dim_geolocation, dim_orders, joined,
                  reviews_agg >>
  /\ UNCHANGED << loadvars, cfgvars >>

\* l.203-204
FactReviews ==
  /\ tpc = "reviews"
  /\ reviews_agg' = ReviewsAgg(reviews)
  /\ fact_order_items' = JoinReviews(fact_order_items, reviews_agg')
  /\ tpc' = "project"
  /\ UNCHANGED << datavars, products_df, dim_customers, dim_products,
                  dim_sellers, dim_geolocation, dim_orders, joined,
                  payments_agg >>
  /\ UNCHANGED << loadvars, cfgvars >>

\* l.205-218
FactProject ==
  /\ tpc = "project"
  /\ fact_order_items' = ProjectAndFill(fact_order_items)
  /\ tpc' = "transformed"
  /\ UNCHANGED << datavars, products_df, dim_customers, dim_products,
                  dim_sellers, dim_geolocation, dim_orders, joined,
                  payments_agg, reviews_agg >>
  /\ UNCHANGED << loadvars, cfgvars >>

NextFact ==
  \/ FactJoin
  \/ FactPayments
  \/ FactReviews
  \/ FactProject

SpecFact == InitFact /\ [][NextFact]_vars

\* the rows of the inner join orders-customers-order_items, counted on the
\* extracts
InnerJoinCount ==
  Cardinality(
    { t \in (1..Len(orders)) \X (1..Len(customers)) \X (1..Len(order_items)) :
        /\ orders[t[1]].customer_id = customers[t[2]].customer_id
        /\ orders[t[1]].order_id = order_items[t[3]].order_id })

RowsOfOrder(rows, k) ==
  Cardinality({ i \in 1..Len(rows) : rows[i].order_id = k })

\* C8: from the inner joins on, fact_order_items has exactly the rows of
\* the inner join orders-customers-order_items, the same order item at the
\* same place: the two left joins drop no row and multiply none.
C8_FactRowCountPreserved ==
  tpc # "fact" =>
    /\ Len(fact_order_items) = InnerJoinCount
    /\ Len(fact_order_items) = Len(joined)
    /\ \A i \in 1..Len(fact_order_items) :
         /\ fact_order_items[i].order_id = joined[i].order_id
         /\ fact_order_items[i].order_item_id = joined[i].order_item_id

\* a finished fact table with a row of an order that has several payment
\* rows and several review rows
C8_Witness ==
  /\ tpc = "transformed"
  /\ \E i \in 1..Len(fact_order_items) :
       /\ RowsOfOrder(payments, fact_order_items[i].order_id) >= 2
       /\ RowsOfOrder(reviews, fact_order_items[i].order_id) >= 2

\* the most frequent value of a sequence, the one met first among several
FirstMostFrequent(xs) ==
  LET count(v) == Cardinality({ i \in 1..Len(xs) : xs[i] = v })
      top == MaxOf({ count(xs[i]) : i \in 1..Len(xs) })
  IN  xs[MinOf({ i \in 1..Len(xs) : count(xs[i]) = top })]

\* C9: for every order with a payment row the aggregate holds the most
\* frequent payment_type of the order's rows, the first in input order on
\* a tie, the sum of payment_value and the maximum of payment_installments.
C9_PaymentModeFirstOccurrence ==
  tpc \in {"reviews", "project", "transformed"} =>
    /\ { payments_agg[n].order_id : n \in 1..Len(payments_agg) } =
         { payments[i].order_id : i \in 1..Len(payments) }
    /\ \A n \in 1..Len(payments_agg) :
         LET g == Group(payments, payments_agg[n].order_id)
         IN  /\ payments_agg[n].payment_type =
                  << FirstMostFrequent([i \in 1..Len(g) |-> g[i].payment_type]) >>
             /\ payments_agg[n].payment_value =
                  << SumSeq([i \in 1..Len(g) |-> g[i].payment_value]) >>
             /\ payments_agg[n].payment_installments =
                  << MaxOf({ g[i].payment_installments : i \in 1..Len(g) }) >>

=============================================================================
